---- MODULE Spec2Model ----
(***************************************************************************)
(* Model of modules/planning/lattice/trajectory_generation/                *)
(* trajectory_evaluator.cc: the TrajectoryEvaluator of the lattice planner.*)
(*                                                                         *)
(* A double is modelled by an exact rational <<n, d>> in lowest terms with *)
(* d > 0; <<1, 0>> and <<-1, 0>> are the IEEE infinities a division by     *)
(* zero produces and <<0, 0>> is NaN.  Rounding is not modelled.           *)
(***************************************************************************)
EXTENDS Integers, Sequences, FiniteSets, Bags, TLC

VARIABLES
    FLAGS,                        \* the gflags the evaluator reads (a record)
    init_s,                       \* init_s_ : <<s, s', s''>>
    planning_target,              \* the PlanningTarget given to the constructor
    lon_trajectories,             \* constructor argument: sequence of curve references
    lat_trajectories,             \* constructor argument: sequence of curve references
    path_time_graph_,             \* the PathTimeGraph given to the constructor, as the
                                  \* blocking intervals it answers with
    path_time_intervals_,         \* per time slice, the sequence of blocked <<lo, hi>> intervals
    cost_queue_,                  \* priority queue of PairCost, as a bag
    cost_queue_with_components_,  \* priority queue of PairCostWithComponents, as a bag
    pc,                           \* "new", "ready", "aborted", or a pure-function stage
    call,                         \* the last public call and what it returned
    retrieved,                    \* history: the records popped by next_top_trajectory_pair
    reference_s_dot,              \* result of the last ComputeLongitudinalGuideVelocity
    lat_a, lat_b,                 \* two lateral curves handed to LatOffsetCost
    s_values,                     \* the s samples handed to LatOffsetCost
    lat_offset_cost               \* <<LatOffsetCost(lat_a), LatOffsetCost(lat_b)>>

vars == <<FLAGS, init_s, planning_target, lon_trajectories, lat_trajectories,
          path_time_graph_, path_time_intervals_, cost_queue_, cost_queue_with_components_, pc,
          call, retrieved, reference_s_dot, lat_a, lat_b, s_values,
          lat_offset_cost>>

-----------------------------------------------------------------------------
(* double arithmetic *)

Abs(x) == IF x < 0 THEN -x ELSE x

Sgn(x) == IF x < 0 THEN -1 ELSE IF x > 0 THEN 1 ELSE 0

RECURSIVE GCD(_, _)
GCD(a, b) == IF b = 0 THEN a ELSE GCD(b, a % b)

\* the double n/d
Norm(n, d) ==
    IF d = 0 THEN <<Sgn(n), 0>>
    ELSE LET g == GCD(Abs(n), Abs(d))
         IN  IF d > 0 THEN <<n \div g, d \div g>> ELSE <<(-n) \div g, (-d) \div g>>

I(n) == <<n, 1>>

Inf == <<1, 0>>

IsFinite(a) == a[2] # 0

RAdd(a, b) ==
    IF a[2] = 0 \/ b[2] = 0
    THEN (IF a[2] # 0 THEN b
          ELSE IF b[2] # 0 THEN a
          ELSE IF a[1] = b[1] THEN a ELSE <<0, 0>>)
    ELSE LET g == GCD(a[2], b[2])
         IN  Norm(a[1] * (b[2] \div g) + b[1] * (a[2] \div g), (a[2] \div g) * b[2])

RNeg(a) == <<-a[1], a[2]>>

RSub(a, b) == RAdd(a, RNeg(b))

RMul(a, b) ==
    IF a[2] = 0 \/ b[2] = 0
    THEN <<Sgn(a[1]) * Sgn(b[1]), 0>>
    ELSE LET g1 == GCD(Abs(a[1]), b[2])
             g2 == GCD(Abs(b[1]), a[2])
         IN  Norm((a[1] \div g1) * (b[1] \div g2), (a[2] \div g2) * (b[2] \div g1))

\* 1.0 / a ; 1.0 / 0.0 is +infinity
RInv(a) == IF a = <<0, 0>> THEN a ELSE IF a[1] = 0 THEN Inf ELSE Norm(a[2], a[1])

RDiv(a, b) == RMul(a, RInv(b))

RAbs(a) == <<Abs(a[1]), a[2]>>

\* n1/d1 < n2/d2 for d1, d2 > 0, by continued fractions (no products)
RECURSIVE FracLess(_, _, _, _)
FracLess(n1, d1, n2, d2) ==
    LET q1 == n1 \div d1
        q2 == n2 \div d2
        r1 == n1 % d1
        r2 == n2 % d2
    IN  IF q1 # q2 THEN q1 < q2
        ELSE IF r2 = 0 THEN FALSE
        ELSE IF r1 = 0 THEN TRUE
        ELSE FracLess(d2, r2, d1, r1)

\* a < b on doubles (false when either is NaN)
RLess(a, b) ==
    /\ a # <<0, 0>> /\ b # <<0, 0>>
    /\ IF a[2] = 0 \/ b[2] = 0
       THEN a # b /\ (a = <<-1, 0>> \/ b = <<1, 0>>)
       ELSE FracLess(a[1], a[2], b[1], b[2])

RLeq(a, b) == a # <<0, 0>> /\ b # <<0, 0>> /\ ~RLess(b, a)

RMax(a, b) == IF RLess(a, b) THEN b ELSE a

RMin(a, b) == IF RLess(b, a) THEN b ELSE a

-----------------------------------------------------------------------------
(* Curve1d: the evaluable curves the evaluator borrows.                    *)
(*   [kind |-> "poly", coef |-> <<c0, c1, c2, c3>>, len |-> L]             *)
(*       value c0 + c1 x + c2 x^2 + c3 x^3 on the domain [0, L]            *)
(*   [kind |-> "step", val |-> <<v1, ..., vn>>, len |-> L]                 *)
(*       piecewise constant: value val[k+1] on [k, k+1), last value beyond *)

\* Curve1d::Evaluate(order, param), param an integer
Evaluate1d(curve, order, x) ==
    IF curve.kind = "poly"
    THEN LET c == curve.coef
         IN  CASE order = 0 -> c[1] + c[2] * x + c[3] * x * x + c[4] * x * x * x
               [] order = 1 -> c[2] + 2 * c[3] * x + 3 * c[4] * x * x
               [] order = 2 -> 2 * c[3] + 6 * c[4] * x
               [] order = 3 -> 6 * c[4]
               [] OTHER -> 0
    ELSE IF order # 0 THEN 0
         ELSE IF x < 0 THEN curve.val[1]
         ELSE IF x >= Len(curve.val) THEN curve.val[Len(curve.val)]
         ELSE curve.val[x + 1]

\* Curve1d::ParamLength()
ParamLength(curve) == curve.len

Poly(c0, c1, c2, c3, len) ==
    [kind |-> "poly", coef |-> <<c0, c1, c2, c3>>, len |-> len]

Step(val) == [kind |-> "step", val |-> val, len |-> Len(val)]

-----------------------------------------------------------------------------
(* gflags (modules/planning/common/planning_gflags).  Times are in units   *)
(* of the time resolution and positions in units of the space resolution.  *)

DefaultFlags ==
    [ enable_auto_tuning                    |-> FALSE,
      trajectory_time_length                |-> 3,
      trajectory_time_resolution            |-> 1,
      trajectory_space_resolution           |-> 1,
      decision_horizon                      |-> 4,
      lattice_epsilon                       |-> <<1, 2>>,
      longitudinal_acceleration_lower_bound |-> I(-4),
      comfort_acceleration_factor           |-> <<1, 2>>,
      longitudinal_jerk_upper_bound         |-> 2,
      lat_offset_bound                      |-> 2,
      weight_opposite_side_offset           |-> 10,
      weight_same_side_offset               |-> 1,
      weight_target_speed                   |-> 1,
      weight_dist_travelled                 |-> 2,
      lon_collision_yield_buffer            |-> 1,
      lon_collision_overtake_buffer         |-> 2,
      weight_lon_travel                     |-> 6,
      weight_lon_jerk                       |-> 1,
      weight_lon_collision                  |-> 2,
      weight_lat_offset                     |-> 2,
      weight_lat_comfort                    |-> 1 ]

\* the samples 0, step, 2 step, ... below limit: for (x = 0.0; x < limit; x += step)
Samples(limit, step) ==
    LET n == IF limit <= 0 THEN 0 ELSE (limit + step - 1) \div step
    IN  [k \in 1 .. n |-> (k - 1) * step]

\* the time samples of the evaluation horizon
TimeSamples == Samples(FLAGS.trajectory_time_length, FLAGS.trajectory_time_resolution)

-----------------------------------------------------------------------------
(* ConstantAccelerationTrajectory1d: a start state and constant-           *)
(* acceleration segments <<a, duration>>.                                  *)

\* ConstantAccelerationTrajectory1d(start_s, start_v)
NewAccelerationTrajectory(start_s, start_v) ==
    [s0 |-> start_s, v0 |-> start_v, segs |-> <<>>]

AppendSegment(traj, a, t_duration) ==
    [traj EXCEPT !.segs = Append(@, <<a, t_duration>>)]

RECURSIVE SumDurations(_)
SumDurations(segs) ==
    IF segs = <<>> THEN I(0) ELSE RAdd(segs[1][2], SumDurations(Tail(segs)))

AccelerationParamLength(traj) == SumDurations(traj.segs)

\* speed at time t (a double), walking the segments from speed v at time t0
RECURSIVE SpeedFrom(_, _, _, _)
SpeedFrom(segs, v, t0, t) ==
    IF segs = <<>> THEN v
    ELSE LET a  == segs[1][1]
             t1 == RAdd(t0, segs[1][2])
         IN  IF RLeq(t, t1)
             THEN RAdd(v, RMul(a, RSub(t, t0)))
             ELSE SpeedFrom(Tail(segs), RAdd(v, RMul(a, segs[1][2])), t1, t)

\* lon_traj.Evaluate(1, t)
EvaluateSpeed(traj, t) == SpeedFrom(traj.segs, traj.v0, I(0), t)

\* the cruise segment forgotten: the deceleration starts at time 0
GuideTrajectory_no_cruise(target, s0) ==
    LET comfort_a    == RMul(FLAGS.longitudinal_acceleration_lower_bound,
                             FLAGS.comfort_acceleration_factor)
        cruise_s_dot == target.cruise_speed
        horizon      == I(FLAGS.trajectory_time_length)
        lon_traj     == NewAccelerationTrajectory(s0, cruise_s_dot)
    IN  IF ~target.has_stop_point
        THEN AppendSegment(lon_traj, I(0), horizon)
        ELSE LET dist   == RSub(target.stop_point_s, s0)
                 stop_a == IF RLess(FLAGS.lattice_epsilon, dist)
                           THEN RDiv(RMul(RMul(RNeg(cruise_s_dot), cruise_s_dot), <<1, 2>>), dist)
                           ELSE FLAGS.longitudinal_acceleration_lower_bound
                 built  ==
                     IF RLess(comfort_a, stop_a)
                     THEN AppendSegment(lon_traj, comfort_a, RDiv(cruise_s_dot, RNeg(comfort_a)))
                     ELSE AppendSegment(lon_traj, stop_a, RDiv(cruise_s_dot, RNeg(stop_a)))
             IN  IF RLess(AccelerationParamLength(built), horizon)
                 THEN AppendSegment(built, I(0),
                                    RSub(horizon, AccelerationParamLength(built)))
                 ELSE built

\* ComputeLongitudinalGuideVelocity: the profile built before sampling
GuideTrajectory(target, s0) ==
    LET comfort_a    == RMul(FLAGS.longitudinal_acceleration_lower_bound,
                             FLAGS.comfort_acceleration_factor)
        cruise_s_dot == target.cruise_speed
        horizon      == I(FLAGS.trajectory_time_length)
        lon_traj     == NewAccelerationTrajectory(s0, cruise_s_dot)
    IN  IF ~target.has_stop_point
        THEN AppendSegment(lon_traj, I(0), horizon)
        ELSE LET dist   == RSub(target.stop_point_s, s0)
                 stop_a == IF RLess(FLAGS.lattice_epsilon, dist)
                           THEN RDiv(RMul(RMul(RNeg(cruise_s_dot), cruise_s_dot), <<1, 2>>), dist)
                           ELSE FLAGS.longitudinal_acceleration_lower_bound
                 built  ==
                     IF RLess(comfort_a, stop_a)
                     THEN LET stop_t    == RDiv(cruise_s_dot, RNeg(comfort_a))
                              stop_dist == RMul(RMul(cruise_s_dot, stop_t), <<1, 2>>)
                              cruise_t  == RDiv(RSub(dist, stop_dist), cruise_s_dot)
                          IN  AppendSegment(AppendSegment(lon_traj, I(0), cruise_t),
                                            comfort_a, stop_t)
                     ELSE LET stop_t == RDiv(cruise_s_dot, RNeg(stop_a))
                          IN  AppendSegment(lon_traj, stop_a, stop_t)
             IN  IF RLess(AccelerationParamLength(built), horizon)
                 THEN AppendSegment(built, I(0),
                                    RSub(horizon, AccelerationParamLength(built)))
                 ELSE built

\* TrajectoryEvaluator::ComputeLongitudinalGuideVelocity
ComputeLongitudinalGuideVelocity(target, s0) ==
    LET lon_traj == GuideTrajectory(target, s0)
        ts       == TimeSamples
    IN  [k \in 1 .. Len(ts) |-> EvaluateSpeed(lon_traj, I(ts[k]))]

-----------------------------------------------------------------------------
(* The cost model *)

\* sum of a sequence of doubles, accumulated front to back
RECURSIVE RSum(_)
RSum(seq) == IF seq = <<>> THEN I(0) ELSE RAdd(RSum(SubSeq(seq, 1, Len(seq) - 1)), seq[Len(seq)])

\* LonObjectiveCost: dist_s and dist_travelled_cost = 1.0 / (1.0 + dist_s)
DistS(lon_trajectory) ==
    Evaluate1d(lon_trajectory, 0, ParamLength(lon_trajectory))
        - Evaluate1d(lon_trajectory, 0, 0)

\* a sign slip in the denominator: 1.0 / (1.0 - dist_s)
DistTravelledCost_sign_slip(lon_trajectory) ==
    RDiv(I(1), RSub(I(1), I(Evaluate1d(lon_trajectory, 0, ParamLength(lon_trajectory))
                              - Evaluate1d(lon_trajectory, 0, 0))))

DistTravelledCost(lon_trajectory) == RDiv(I(1), RAdd(I(1), I(DistS(lon_trajectory))))

\* LonObjectiveCost: speed_cost
SpeedCost(lon_trajectory, ref_s_dots) ==
    LET n    == Len(ref_s_dots)
        t(i) == (i - 1) * FLAGS.trajectory_time_resolution
        speed_cost_sqr_sum ==
            RSum([i \in 1 .. n |->
                    RMul(I(t(i) * t(i)),
                         RAbs(RSub(ref_s_dots[i], I(Evaluate1d(lon_trajectory, 1, t(i))))))])
        speed_cost_weight_sum == RSum([i \in 1 .. n |-> I(t(i) * t(i))])
    IN  RDiv(speed_cost_sqr_sum, RAdd(speed_cost_weight_sum, FLAGS.lattice_epsilon))

\* TrajectoryEvaluator::LonObjectiveCost
LonObjectiveCost(lon_trajectory, ref_s_dots) ==
    RDiv(RAdd(RMul(SpeedCost(lon_trajectory, ref_s_dots), I(FLAGS.weight_target_speed)),
              RMul(DistTravelledCost(lon_trajectory), I(FLAGS.weight_dist_travelled))),
         I(FLAGS.weight_target_speed + FLAGS.weight_dist_travelled))

\* TrajectoryEvaluator::LonComfortCost
LonComfortCost(lon_trajectory) ==
    LET ts      == TimeSamples
        cost(i) == Norm(Evaluate1d(lon_trajectory, 3, ts[i]),
                        FLAGS.longitudinal_jerk_upper_bound)
        cost_sqr_sum == RSum([i \in 1 .. Len(ts) |-> RMul(cost(i), cost(i))])
        cost_abs_sum == RSum([i \in 1 .. Len(ts) |-> RAbs(cost(i))])
    IN  RDiv(cost_sqr_sum, RAdd(cost_abs_sum, FLAGS.lattice_epsilon))

\* 2^n
RECURSIVE Pow2(_)
Pow2(n) == IF n = 0 THEN 1 ELSE 2 * Pow2(n - 1)

\* std::exp(-dist * dist / (2.0 * sigma * sigma)) for an integer dist, with
\* FLAGS_lon_collision_cost_std such that 2 sigma^2 = 1 / ln 2: exactly 2^(-dist^2)
Gauss(dist) == <<1, Pow2(dist * dist)>>

\* LonCollisionCost, inner loop body: the cost of one blocking interval m
IntervalCost(traj_s, m) ==
    LET dist == IF traj_s < m[1] - FLAGS.lon_collision_yield_buffer
                THEN m[1] - FLAGS.lon_collision_yield_buffer - traj_s
                ELSE IF traj_s > m[2] + FLAGS.lon_collision_overtake_buffer
                THEN traj_s - m[2] - FLAGS.lon_collision_overtake_buffer
                ELSE 0
    IN  Gauss(dist)

\* the costs of all (slice, interval) pairs, in iteration order
RECURSIVE CollisionCosts(_, _, _)
CollisionCosts(lon_trajectory, intervals, i) ==
    IF i > Len(intervals) THEN <<>>
    ELSE LET traj_s == Evaluate1d(lon_trajectory, 0, (i - 1) * FLAGS.trajectory_time_resolution)
         IN  [k \in 1 .. Len(intervals[i]) |-> IntervalCost(traj_s, intervals[i][k])]
                 \o CollisionCosts(lon_trajectory, intervals, i + 1)

\* TrajectoryEvaluator::LonCollisionCost; intervals is path_time_intervals_ at the call
LonCollisionCost(lon_trajectory, intervals) ==
    LET costs == CollisionCosts(lon_trajectory, intervals, 1)
        cost_sqr_sum == RSum([k \in 1 .. Len(costs) |-> RMul(costs[k], costs[k])])
        cost_abs_sum == RSum(costs)
    IN  RDiv(cost_sqr_sum, RAdd(cost_abs_sum, FLAGS.lattice_epsilon))

\* the two weights exchanged between the branches
OffsetSample_swapped(lat_offset, lat_offset_start) ==
    LET cost == Norm(lat_offset, FLAGS.lat_offset_bound)
        w    == IF lat_offset * lat_offset_start < 0
                THEN FLAGS.weight_same_side_offset
                ELSE FLAGS.weight_opposite_side_offset
    IN  <<RMul(RMul(cost, cost), I(w)), RMul(RAbs(cost), I(w))>>

\* LatOffsetCost, loop body: <<weighted square, weighted absolute value>> of one sample
OffsetSample(lat_offset, lat_offset_start) ==
    LET cost == Norm(lat_offset, FLAGS.lat_offset_bound)
        w    == IF lat_offset * lat_offset_start < 0
                THEN FLAGS.weight_opposite_side_offset
                ELSE FLAGS.weight_same_side_offset
    IN  <<RMul(RMul(cost, cost), I(w)), RMul(RAbs(cost), I(w))>>

\* TrajectoryEvaluator::LatOffsetCost
LatOffsetCost(lat_trajectory, svalues) ==
    LET lat_offset_start == Evaluate1d(lat_trajectory, 0, 0)
        sample(k) == OffsetSample(Evaluate1d(lat_trajectory, 0, svalues[k]), lat_offset_start)
        cost_sqr_sum == RSum([k \in 1 .. Len(svalues) |-> sample(k)[1]])
        cost_abs_sum == RSum([k \in 1 .. Len(svalues) |-> sample(k)[2]])
    IN  RDiv(cost_sqr_sum, RAdd(cost_abs_sum, FLAGS.lattice_epsilon))

\* std::max over a sequence of integers, starting from max_cost = 0
RECURSIVE MaxOf(_)
MaxOf(seq) ==
    IF seq = <<>> THEN 0
    ELSE LET m == MaxOf(Tail(seq)) IN IF seq[1] > m THEN seq[1] ELSE m

\* TrajectoryEvaluator::LatComfortCost
LatComfortCost(lon_trajectory, lat_trajectory) ==
    LET ts == TimeSamples
        cost(i) ==
            LET s            == Evaluate1d(lon_trajectory, 0, ts[i])
                s_dot        == Evaluate1d(lon_trajectory, 1, ts[i])
                s_dotdot     == Evaluate1d(lon_trajectory, 2, ts[i])
                l_prime      == Evaluate1d(lat_trajectory, 1, s)
                l_primeprime == Evaluate1d(lat_trajectory, 2, s)
            IN  Abs(l_primeprime * s_dot * s_dot + l_prime * s_dotdot)
    IN  I(MaxOf([i \in 1 .. Len(ts) |-> cost(i)]))

\* TrajectoryEvaluator::Evaluate: [cost, cost_components]; intervals is
\* path_time_intervals_ at the call
EvaluatePair(target, lon_trajectory, lat_trajectory, intervals) ==
    LET reference_s_dot_   == ComputeLongitudinalGuideVelocity(target, init_s[1])
        lon_objective_cost == LonObjectiveCost(lon_trajectory, reference_s_dot_)
        lon_jerk_cost      == LonComfortCost(lon_trajectory)
        lon_collision_cost == LonCollisionCost(lon_trajectory, intervals)
        evaluation_horizon ==
            LET reach == Evaluate1d(lon_trajectory, 0, ParamLength(lon_trajectory))
            IN  IF FLAGS.decision_horizon < reach THEN FLAGS.decision_horizon ELSE reach
        svalues            == Samples(evaluation_horizon, FLAGS.trajectory_space_resolution)
        lat_offset_cost_   == LatOffsetCost(lat_trajectory, svalues)
        lat_comfort_cost   == LatComfortCost(lon_trajectory, lat_trajectory)
    IN  [ cost |->
            RAdd(RAdd(RAdd(RAdd(RMul(lon_objective_cost, I(FLAGS.weight_lon_travel)),
                                RMul(lon_jerk_cost, I(FLAGS.weight_lon_jerk))),
                           RMul(lon_collision_cost, I(FLAGS.weight_lon_collision))),
                      RMul(lat_offset_cost_, I(FLAGS.weight_lat_offset))),
                 RMul(lat_comfort_cost, I(FLAGS.weight_lat_comfort))),
          cost_components |->
            <<lon_objective_cost, lon_jerk_cost, lon_collision_cost, lat_offset_cost_>> ]

-----------------------------------------------------------------------------
(* The curves of the planning cycle.  A std::shared_ptr<Curve1d> is modelled *)
(* by an index into these tables: equal indices are the same object.         *)

LonCurves ==
    << [curve |-> Poly(0, 2, 0, 0, 3),  valid |-> TRUE],    \* s = 2t
       [curve |-> Poly(0, 0, 0, 0, 3),  valid |-> TRUE],    \* standing still
       [curve |-> Poly(0, -1, 0, 0, 1), valid |-> TRUE],    \* reversing, net displacement -1
       [curve |-> Poly(0, -1, 0, 0, 2), valid |-> TRUE],    \* reversing, net displacement -2
       [curve |-> Poly(0, 0, 0, 1, 1),  valid |-> TRUE],    \* s = t^3, jerk 6
       [curve |-> Poly(0, 3, 0, 0, 3),  valid |-> FALSE] >> \* violates the kinematic bounds

LatCurves ==
    << Poly(1, -1, 0, 0, 4),      \* l = 1 - s: crosses the reference line
       Poly(-1, 0, 1, 0, 4) >>    \* l = s^2 - 1: crosses the other way

LonRefs == 1 .. Len(LonCurves)

LatRefs == 1 .. Len(LatCurves)

\* *lon_trajectory
LonCurve(ref) == LonCurves[ref].curve

\* *lat_trajectory
LatCurve(ref) == LatCurves[ref]

\* ConstraintChecker1d::IsValidLongitudinalTrajectory(*lon_trajectory)
IsValidLongitudinalTrajectory(ref) == LonCurves[ref].valid

MaxLon == 2

MaxLat == 2

\* the candidate lists of at most n references.  The order of a list decides
\* only the order of the push() calls, which a bag does not record, so the lists
\* are taken up to permutation: non-decreasing sequences of references.
RECURSIVE ListsUpTo(_, _)
ListsUpTo(S, n) ==
    IF n = 0 THEN {<<>>}
    ELSE LET shorter == ListsUpTo(S, n - 1)
         IN  shorter \cup
             UNION {{Append(q, x) : x \in {y \in S : q = <<>> \/ q[Len(q)] <= y}} :
                    q \in shorter}

Targets ==
    { [has_stop_point |-> FALSE, stop_point_s |-> I(0), cruise_speed |-> I(2)],
      [has_stop_point |-> TRUE,  stop_point_s |-> I(6), cruise_speed |-> I(2)] }

\* PathTimeGraph::GetPathBlockingIntervals(start_time, end_time, resolution)
BlockingTables ==
    { << <<>>, <<>>, <<>> >>,
      << <<>>, << <<-2, 7>> >>, << <<0, 5>>, <<1, 4>> >> >> }

-----------------------------------------------------------------------------
(* TrajectoryEvaluator *)

\* the stop-point filter left out
Admitted_no_stop_filter(target, ref) == IsValidLongitudinalTrajectory(ref)

\* the stop-point filter written with >= : a candidate ending on the stop point is dropped
Admitted_rejects_equal(target, ref) ==
    LET stop_point == IF target.has_stop_point THEN target.stop_point_s ELSE Inf
        lon_end_s  == Evaluate1d(LonCurve(ref), 0, FLAGS.trajectory_time_length)
    IN  /\ RLess(I(lon_end_s), stop_point)
        /\ IsValidLongitudinalTrajectory(ref)

\* the filter of the constructor's outer loop: does lon_trajectory reach the inner loop
Admitted(target, ref) ==
    LET stop_point == IF target.has_stop_point THEN target.stop_point_s ELSE Inf
        lon_end_s  == Evaluate1d(LonCurve(ref), 0, FLAGS.trajectory_time_length)
    IN  /\ ~RLess(stop_point, I(lon_end_s))
        /\ IsValidLongitudinalTrajectory(ref)

\* the pairs the nested loops of the constructor visit, in order
RECURSIVE VisitedPairs(_, _, _)
VisitedPairs(target, lons, lats) ==
    IF lons = <<>> THEN <<>>
    ELSE (IF Admitted(target, lons[1])
          THEN [k \in 1 .. Len(lats) |-> <<lons[1], lats[k]>>]
          ELSE <<>>)
         \o VisitedPairs(target, Tail(lons), lats)

\* PairCost({lon_trajectory, lat_trajectory}, cost)
PairCost(target, pair, intervals) ==
    [pair |-> pair,
     cost |-> EvaluatePair(target, LonCurve(pair[1]), LatCurve(pair[2]), intervals).cost]

\* PairCostWithComponents({lon_trajectory, lat_trajectory}, {cost_components, cost})
PairCostWithComponents(target, pair, intervals) ==
    LET e == EvaluatePair(target, LonCurve(pair[1]), LatCurve(pair[2]), intervals)
    IN  [pair |-> pair, cost_components |-> e.cost_components, cost |-> e.cost]

\* the queue after push() of every element of a sequence of records
RECURSIVE PushAll(_, _)
PushAll(queue, recs) ==
    IF recs = <<>> THEN queue
    ELSE PushAll(queue (+) SetToBag({recs[1]}), Tail(recs))

\* CostComparator: left.second > right.second
CostComparator(left, right) == RLess(right.cost, left.cost)

\* std::priority_queue::top(): an element no other element is ordered after
Tops(queue) ==
    {r \in BagToSet(queue) : \A o \in BagToSet(queue) : ~CostComparator(r, o)}

\* std::priority_queue::pop() where top() is r
Pop(queue, r) == queue (-) SetToBag({r})

ActiveQueue ==
    IF ~FLAGS.enable_auto_tuning THEN cost_queue_ ELSE cost_queue_with_components_

\* the negation forgotten: returns empty() instead of !empty()
has_more_missing_negation ==
    IF ~FLAGS.enable_auto_tuning
    THEN cost_queue_ = EmptyBag
    ELSE cost_queue_with_components_ = EmptyBag

\* TrajectoryEvaluator::has_more_trajectory_pairs
has_more_trajectory_pairs ==
    IF ~FLAGS.enable_auto_tuning
    THEN cost_queue_ # EmptyBag
    ELSE cost_queue_with_components_ # EmptyBag

\* TrajectoryEvaluator::num_of_trajectory_pairs
num_of_trajectory_pairs ==
    IF ~FLAGS.enable_auto_tuning
    THEN BagCardinality(cost_queue_)
    ELSE BagCardinality(cost_queue_with_components_)

fnvars == <<reference_s_dot, lat_a, lat_b, s_values, lat_offset_cost>>

inputs == <<init_s, planning_target, lon_trajectories, lat_trajectories, path_time_graph_>>

\* TrajectoryEvaluator::TrajectoryEvaluator
Construct ==
    /\ pc = "new"
    /\ path_time_intervals_' = path_time_graph_
    /\ LET pairs == VisitedPairs(planning_target, lon_trajectories, lat_trajectories)
       IN  \* Evaluate runs after the assignment above and reads the new intervals
           IF ~FLAGS.enable_auto_tuning
           THEN /\ cost_queue_' =
                      PushAll(cost_queue_,
                              [k \in 1 .. Len(pairs) |->
                                   PairCost(planning_target, pairs[k], path_time_graph_)])
                /\ UNCHANGED cost_queue_with_components_
           ELSE /\ cost_queue_with_components_' =
                      PushAll(cost_queue_with_components_,
                              [k \in 1 .. Len(pairs) |->
                                   PairCostWithComponents(planning_target, pairs[k],
                                                          path_time_graph_)])
                /\ UNCHANGED cost_queue_
    /\ pc' = "ready"
    /\ call' = [op |-> "TrajectoryEvaluator", ret |-> "void"]
    /\ UNCHANGED <<FLAGS, inputs, retrieved, fnvars>>

\* a call of has_more_trajectory_pairs()
HasMore ==
    /\ pc = "ready"
    /\ call' = [op |-> "has_more_trajectory_pairs", ret |-> has_more_trajectory_pairs]
    /\ UNCHANGED <<FLAGS, inputs, path_time_intervals_, cost_queue_,
                   cost_queue_with_components_, pc, retrieved, fnvars>>

\* a call of num_of_trajectory_pairs()
NumOf ==
    /\ pc = "ready"
    /\ call' = [op |-> "num_of_trajectory_pairs", ret |-> num_of_trajectory_pairs]
    /\ UNCHANGED <<FLAGS, inputs, path_time_intervals_, cost_queue_,
                   cost_queue_with_components_, pc, retrieved, fnvars>>

\* returns and removes some element of the queue instead of top()
next_top_any_element ==
    /\ pc = "ready"
    /\ IF ActiveQueue = EmptyBag
       THEN /\ pc' = "aborted"
            /\ call' = [op |-> "next_top_trajectory_pair", ret |-> "CHECK failed"]
            /\ UNCHANGED <<cost_queue_, cost_queue_with_components_, retrieved>>
       ELSE \E top \in BagToSet(ActiveQueue) :
               /\ IF ~FLAGS.enable_auto_tuning
                  THEN /\ cost_queue_' = Pop(cost_queue_, top)
                       /\ UNCHANGED cost_queue_with_components_
                  ELSE /\ cost_queue_with_components_' = Pop(cost_queue_with_components_, top)
                       /\ UNCHANGED cost_queue_
               /\ call' = [op |-> "next_top_trajectory_pair", ret |-> top.pair]
               /\ retrieved' = Append(retrieved, [pair |-> top.pair, cost |-> top.cost])
               /\ pc' = pc
    /\ UNCHANGED <<FLAGS, inputs, path_time_intervals_, fnvars>>

\* pop() forgotten: returns top() and leaves it in the queue
next_top_without_pop ==
    /\ pc = "ready"
    /\ IF ActiveQueue = EmptyBag
       THEN /\ pc' = "aborted"
            /\ call' = [op |-> "next_top_trajectory_pair", ret |-> "CHECK failed"]
            /\ UNCHANGED retrieved
       ELSE \E top \in Tops(ActiveQueue) :
               /\ call' = [op |-> "next_top_trajectory_pair", ret |-> top.pair]
               /\ retrieved' = Append(retrieved, [pair |-> top.pair, cost |-> top.cost])
               /\ Len(retrieved) < 4
               /\ pc' = pc
    /\ UNCHANGED <<FLAGS, inputs, path_time_intervals_, cost_queue_,
                   cost_queue_with_components_, fnvars>>

\* TrajectoryEvaluator::next_top_trajectory_pair
next_top_trajectory_pair ==
    /\ pc = "ready"
    /\ IF ~has_more_trajectory_pairs
       THEN \* CHECK(has_more_trajectory_pairs() == true) fails
            /\ pc' = "aborted"
            /\ call' = [op |-> "next_top_trajectory_pair", ret |-> "CHECK failed"]
            /\ UNCHANGED <<cost_queue_, cost_queue_with_components_, retrieved>>
       ELSE IF ~FLAGS.enable_auto_tuning
       THEN \E top \in Tops(cost_queue_) :
               /\ cost_queue_' = Pop(cost_queue_, top)
               /\ call' = [op |-> "next_top_trajectory_pair", ret |-> top.pair]
               /\ retrieved' = Append(retrieved, [pair |-> top.pair, cost |-> top.cost])
               /\ UNCHANGED <<cost_queue_with_components_, pc>>
       ELSE \E top \in Tops(cost_queue_with_components_) :
               /\ cost_queue_with_components_' = Pop(cost_queue_with_components_, top)
               /\ call' = [op |-> "next_top_trajectory_pair", ret |-> top.pair]
               /\ retrieved' = Append(retrieved, [pair |-> top.pair, cost |-> top.cost])
               /\ UNCHANGED <<cost_queue_, pc>>
    /\ UNCHANGED <<FLAGS, inputs, path_time_intervals_, fnvars>>

\* what top() of an empty std::priority_queue can give a caller reading a double:
\* a stale or arbitrary value
Garbage == {I(0), I(-1), Inf}

\* reads the cost with top() and then pops it
top_cost_pops ==
    /\ pc = "ready"
    /\ ActiveQueue # EmptyBag
    /\ \E top \in Tops(ActiveQueue) :
          /\ call' = [op |-> "top_trajectory_pair_cost", ret |-> top.cost]
          /\ IF ~FLAGS.enable_auto_tuning
             THEN /\ cost_queue_' = Pop(cost_queue_, top)
                  /\ UNCHANGED cost_queue_with_components_
             ELSE /\ cost_queue_with_components_' = Pop(cost_queue_with_components_, top)
                  /\ UNCHANGED cost_queue_
    /\ UNCHANGED <<FLAGS, inputs, path_time_intervals_, pc, retrieved, fnvars>>

\* TrajectoryEvaluator::top_trajectory_pair_cost
top_trajectory_pair_cost ==
    /\ pc = "ready"
    /\ IF ActiveQueue # EmptyBag
       THEN /\ \E top \in Tops(ActiveQueue) :
                    call' = [op |-> "top_trajectory_pair_cost", ret |-> top.cost]
            /\ pc' = pc
       ELSE \* top() of an empty queue: undefined behaviour
            \/ /\ \E g \in Garbage : call' = [op |-> "top_trajectory_pair_cost", ret |-> g]
               /\ pc' = pc
            \/ /\ call' = [op |-> "top_trajectory_pair_cost", ret |-> "crash"]
               /\ pc' = "crashed"
    /\ UNCHANGED <<FLAGS, inputs, path_time_intervals_, cost_queue_,
                   cost_queue_with_components_, retrieved, fnvars>>

\* CHECK(FLAGS_enable_auto_tuning) left out: top() of the component queue whatever the flag
top_component_cost_unchecked ==
    /\ pc = "ready"
    /\ IF cost_queue_with_components_ # EmptyBag
       THEN \E top \in Tops(cost_queue_with_components_) :
                call' = [op |-> "top_trajectory_pair_component_cost",
                         ret |-> top.cost_components]
       ELSE \E g \in Garbage :
                call' = [op |-> "top_trajectory_pair_component_cost", ret |-> <<g>>]
    /\ UNCHANGED <<FLAGS, inputs, path_time_intervals_, cost_queue_,
                   cost_queue_with_components_, pc, retrieved, fnvars>>

\* TrajectoryEvaluator::top_trajectory_pair_component_cost
top_trajectory_pair_component_cost ==
    /\ pc = "ready"
    /\ IF ~FLAGS.enable_auto_tuning
       THEN \* CHECK(FLAGS_enable_auto_tuning) fails
            /\ pc' = "aborted"
            /\ call' = [op |-> "top_trajectory_pair_component_cost", ret |-> "CHECK failed"]
       ELSE IF cost_queue_with_components_ # EmptyBag
       THEN /\ \E top \in Tops(cost_queue_with_components_) :
                    call' = [op |-> "top_trajectory_pair_component_cost",
                             ret |-> top.cost_components]
            /\ pc' = pc
       ELSE \* top() of an empty queue: undefined behaviour
            \/ /\ \E g \in Garbage :
                    call' = [op |-> "top_trajectory_pair_component_cost", ret |-> <<g>>]
               /\ pc' = pc
            \/ /\ call' = [op |-> "top_trajectory_pair_component_cost", ret |-> "crash"]
               /\ pc' = "crashed"
    /\ UNCHANGED <<FLAGS, inputs, path_time_intervals_, cost_queue_,
                   cost_queue_with_components_, retrieved, fnvars>>

\* TrajectoryEvaluator::evaluate_per_lonlat_trajectory: returns an empty vector
evaluate_per_lonlat_trajectory ==
    /\ pc = "ready"
    /\ call' = [op |-> "evaluate_per_lonlat_trajectory", ret |-> <<>>]
    /\ UNCHANGED <<FLAGS, inputs, path_time_intervals_, cost_queue_,
                   cost_queue_with_components_, pc, retrieved, fnvars>>

\* FLAGS_enable_auto_tuning is a process-wide gflag: code outside the evaluator
\* may write it between two calls
SetAutoTuning ==
    /\ pc = "ready"
    /\ FLAGS' = [FLAGS EXCEPT !.enable_auto_tuning = ~@]
    /\ call' = [op |-> "FLAGS_enable_auto_tuning", ret |-> "void"]
    /\ UNCHANGED <<inputs, path_time_intervals_, cost_queue_,
                   cost_queue_with_components_, pc, retrieved, fnvars>>

Init ==
    /\ FLAGS \in {[DefaultFlags EXCEPT !.enable_auto_tuning = b] : b \in BOOLEAN}
    /\ init_s = <<I(0), I(2), I(0)>>
    /\ planning_target \in Targets
    /\ lon_trajectories \in ListsUpTo(LonRefs, MaxLon)
    /\ lat_trajectories \in ListsUpTo(LatRefs, MaxLat)
    /\ path_time_graph_ \in BlockingTables
    /\ path_time_intervals_ = <<>>
    /\ cost_queue_ = EmptyBag
    /\ cost_queue_with_components_ = EmptyBag
    /\ pc = "new"
    /\ call = [op |-> "none", ret |-> "none"]
    /\ retrieved = <<>>
    /\ reference_s_dot = <<>>
    /\ lat_a = Step(<<0>>)
    /\ lat_b = Step(<<0>>)
    /\ s_values = <<>>
    /\ lat_offset_cost = <<>>

Next ==
    \/ Construct
    \/ HasMore
    \/ NumOf
    \/ next_top_trajectory_pair
    \/ top_trajectory_pair_cost
    \/ top_trajectory_pair_component_cost
    \/ evaluate_per_lonlat_trajectory
    \/ SetAutoTuning

Spec == Init /\ [][Next]_vars

-----------------------------------------------------------------------------
(* ComputeLongitudinalGuideVelocity on its own: the planning target, the   *)
(* initial position and the acceleration flags are drawn, one call is made. *)

MaxStopS == 60

GuideFlags ==
    { [DefaultFlags EXCEPT !.trajectory_time_length = 8,
                           !.longitudinal_acceleration_lower_bound = lb,
                           !.lattice_epsilon = e] :
          lb \in {I(-4), <<-9, 2>>}, e \in {<<1, 2>>, <<1, 1000>>} }

GuideInit ==
    /\ FLAGS \in GuideFlags
    /\ init_s \in {<<I(s), I(0), I(0)>> : s \in {0, 5}}
    /\ planning_target \in
           [has_stop_point : BOOLEAN, stop_point_s : {I(s) : s \in 0 .. MaxStopS},
            cruise_speed : {I(10), I(4)}]
    /\ lon_trajectories = <<>>
    /\ lat_trajectories = <<>>
    /\ path_time_graph_ = <<>>
    /\ path_time_intervals_ = <<>>
    /\ cost_queue_ = EmptyBag
    /\ cost_queue_with_components_ = EmptyBag
    /\ pc = "guide_in"
    /\ call = [op |-> "none", ret |-> "none"]
    /\ retrieved = <<>>
    /\ reference_s_dot = <<>>
    /\ lat_a = Step(<<0>>)
    /\ lat_b = Step(<<0>>)
    /\ s_values = <<>>
    /\ lat_offset_cost = <<>>

\* a call of ComputeLongitudinalGuideVelocity(planning_target)
CallComputeLongitudinalGuideVelocity ==
    /\ pc = "guide_in"
    /\ reference_s_dot' = ComputeLongitudinalGuideVelocity(planning_target, init_s[1])
    /\ pc' = "guide_out"
    /\ UNCHANGED <<FLAGS, inputs, path_time_intervals_, cost_queue_,
                   cost_queue_with_components_, call, retrieved,
                   lat_a, lat_b, s_values, lat_offset_cost>>

GuideNext == CallComputeLongitudinalGuideVelocity

SpecGuide == GuideInit /\ [][GuideNext]_vars

-----------------------------------------------------------------------------
(* LatOffsetCost on its own: two lateral curves with the same start offset *)
(* and the same absolute offsets are drawn, and the cost of each is taken.  *)

MaxSamples == 3

MaxOffset == 2

LatFlags ==
    { [DefaultFlags EXCEPT !.lat_offset_bound = 3,
                           !.weight_same_side_offset = w[1],
                           !.weight_opposite_side_offset = w[2],
                           !.lattice_epsilon = e] :
          w \in {<<1, 10>>, <<1, 2>>}, e \in {<<1, 2>>, <<1, 1000000>>} }

\* the tables of n offsets
OffsetTables(n) == [1 .. n -> (-MaxOffset) .. MaxOffset]

LatInit ==
    /\ FLAGS \in LatFlags
    /\ lat_a \in {Step(tab) : tab \in OffsetTables(MaxSamples)}
    /\ lat_b \in {Step(tab) : tab \in
                      {u \in OffsetTables(MaxSamples) :
                          /\ u[1] = lat_a.val[1]
                          /\ \A k \in 1 .. MaxSamples : Abs(u[k]) = Abs(lat_a.val[k])}}
    /\ s_values \in {Samples(h, FLAGS.trajectory_space_resolution) : h \in 0 .. MaxSamples}
    /\ init_s = <<I(0), I(0), I(0)>>
    /\ planning_target = [has_stop_point |-> FALSE, stop_point_s |-> I(0), cruise_speed |-> I(0)]
    /\ lon_trajectories = <<>>
    /\ lat_trajectories = <<>>
    /\ path_time_graph_ = <<>>
    /\ path_time_intervals_ = <<>>
    /\ cost_queue_ = EmptyBag
    /\ cost_queue_with_components_ = EmptyBag
    /\ pc = "lat_in"
    /\ call = [op |-> "none", ret |-> "none"]
    /\ retrieved = <<>>
    /\ reference_s_dot = <<>>
    /\ lat_offset_cost = <<>>

\* a call of LatOffsetCost(lat_trajectory, s_values) for each of the two curves
CallLatOffsetCost ==
    /\ pc = "lat_in"
    /\ lat_offset_cost' = <<LatOffsetCost(lat_a, s_values), LatOffsetCost(lat_b, s_values)>>
    /\ pc' = "lat_out"
    /\ UNCHANGED <<FLAGS, inputs, path_time_intervals_, cost_queue_,
                   cost_queue_with_components_, call, retrieved, reference_s_dot,
                   lat_a, lat_b, s_values>>

LatNext == CallLatOffsetCost

SpecLatOffset == LatInit /\ [][LatNext]_vars

-----------------------------------------------------------------------------
(* Properties of the ranked pair store (specification Spec)                *)

\* the bag of the elements of a sequence
SeqBag(seq) ==
    [x \in {seq[i] : i \in DOMAIN seq} |-> Cardinality({i \in DOMAIN seq : seq[i] = x})]

\* the bag of the pairs of the records of a queue
PairBag(queue) ==
    [p \in {r.pair : r \in BagToSet(queue)} |->
        BagCardinality([r \in {x \in BagToSet(queue) : x.pair = p} |-> queue[r]])]

\* position of a longitudinal candidate at the end of the evaluation horizon
EndOfHorizon(ref) == Evaluate1d(LonCurve(ref), 0, FLAGS.trajectory_time_length)

Overshoots(ref) ==
    /\ planning_target.has_stop_point
    /\ RLess(planning_target.stop_point_s, I(EndOfHorizon(ref)))

\* the positions of lon_trajectories whose candidate is feasible and does not overshoot
SurvivorPositions ==
    {i \in DOMAIN lon_trajectories :
        /\ LonCurves[lon_trajectories[i]].valid
        /\ ~Overshoots(lon_trajectories[i])}

\* every (survivor, lateral) pair, once per occurrence in the input lists
ExpectedPairs ==
    [p \in {<<lon_trajectories[i], lat_trajectories[j]>> :
                i \in SurvivorPositions, j \in DOMAIN lat_trajectories} |->
        Cardinality({i \in SurvivorPositions : lon_trajectories[i] = p[1]})
        * Cardinality({j \in DOMAIN lat_trajectories : lat_trajectories[j] = p[2]})]

NumExpectedPairs == Cardinality(SurvivorPositions) * Len(lat_trajectories)

\* the queue the flag does not select
InactiveQueue ==
    IF ~FLAGS.enable_auto_tuning THEN cost_queue_with_components_ ELSE cost_queue_

\* the costs held by the records still in either queue
RemainingCosts ==
    {r.cost : r \in BagToSet(cost_queue_)}
        \cup {r.cost : r \in BagToSet(cost_queue_with_components_)}

\* C1: every take_best returns a pair whose total cost is the minimum of the
\* costs still in the store, so the costs of the returned pairs are non-decreasing
\* and no remaining pair is cheaper than a returned one; the cost a record
\* carries is the total cost the cost model gives its pair.
C1_TakeBestReturnsMinimum ==
    /\ \A i \in DOMAIN retrieved : \A j \in DOMAIN retrieved :
          i < j => RLeq(retrieved[i].cost, retrieved[j].cost)
    /\ \A i \in DOMAIN retrieved : \A c \in RemainingCosts :
          RLeq(retrieved[i].cost, c)
    /\ call.op = "TrajectoryEvaluator" =>
          \A r \in BagToSet(ActiveQueue) :
              r.cost = EvaluatePair(planning_target, LonCurve(r.pair[1]),
                                    LatCurve(r.pair[2]), path_time_intervals_).cost

C1_Witness ==
    /\ Len(retrieved) >= 2
    /\ RLess(retrieved[1].cost, retrieved[Len(retrieved)].cost)
    /\ ActiveQueue # EmptyBag

\* C2: with a stop point, no pair returned by take_best has a longitudinal
\* member whose position at t = trajectory_time_length exceeds the stop position.
C2_NoOvershootRetrieved ==
    \A i \in DOMAIN retrieved : ~Overshoots(retrieved[i].pair[1])

C2_Witness ==
    /\ planning_target.has_stop_point
    /\ \E i \in DOMAIN lon_trajectories :
          /\ Overshoots(lon_trajectories[i])
          /\ LonCurves[lon_trajectories[i]].valid
    /\ retrieved # <<>>
    /\ cost_queue_ = EmptyBag
    /\ cost_queue_with_components_ = EmptyBag

\* C3: take_best with no pair remaining, and the component accessor with
\* component tracking off, abort on the failed CHECK without returning a value,
\* and leave both queues as they were.
C3_FailFast ==
    [][ (\/ call'.op = "next_top_trajectory_pair" /\ ActiveQueue = EmptyBag
         \/ call'.op = "top_trajectory_pair_component_cost" /\ ~FLAGS.enable_auto_tuning)
        => /\ pc' = "aborted"
           /\ call'.ret = "CHECK failed"
           /\ UNCHANGED <<cost_queue_, cost_queue_with_components_, retrieved>> ]_vars

C3_Witness ==
    /\ pc = "aborted"
    /\ call.op = "top_trajectory_pair_component_cost"
    /\ cost_queue_ # EmptyBag
    /\ retrieved # <<>>

\* C4: once every admitted pair has been retrieved, has_more returns false and
\* remaining_count returns 0 on every later call.
C4_DrainedStaysEmpty ==
    (pc # "new" /\ Len(retrieved) = NumExpectedPairs) =>
        /\ call.op = "has_more_trajectory_pairs" => call.ret = FALSE
        /\ call.op = "num_of_trajectory_pairs" => call.ret = 0
        /\ cost_queue_ = EmptyBag
        /\ cost_queue_with_components_ = EmptyBag

C4_Witness ==
    /\ Len(retrieved) = NumExpectedPairs
    /\ Len(retrieved) >= 2
    /\ call.op = "has_more_trajectory_pairs"

\* C5: right after construction the store holds one record for every pair of a
\* surviving longitudinal candidate (feasible, end position not beyond the stop
\* position, equality admitted) with every lateral candidate, and nothing else;
\* remaining_count is survivors times laterals, and with zero pairs construction
\* completes and has_more is false.
C5_StoreAfterConstruction ==
    call.op = "TrajectoryEvaluator" =>
        /\ pc = "ready"
        /\ PairBag(ActiveQueue) = ExpectedPairs
        /\ InactiveQueue = EmptyBag
        /\ num_of_trajectory_pairs = NumExpectedPairs
        /\ has_more_trajectory_pairs <=> NumExpectedPairs > 0

C5_Witness ==
    /\ call.op = "TrajectoryEvaluator"
    /\ planning_target.has_stop_point
    /\ \E i \in DOMAIN lon_trajectories :
          I(EndOfHorizon(lon_trajectories[i])) = planning_target.stop_point_s
    /\ \E i \in DOMAIN lon_trajectories : Overshoots(lon_trajectories[i])
    /\ Len(lat_trajectories) = 2
    /\ num_of_trajectory_pairs = 2

\* C6: peek_best_cost on a non-empty store returns the cost of a stored record,
\* the one of the pair the next take_best returns; it removes nothing
\* (both queues, remaining_count and has_more are as before), and a second call
\* with no take_best in between returns the same cost.
C6_PeekIsNextTake ==
    [][ /\ (call'.op = "top_trajectory_pair_cost" /\ ActiveQueue # EmptyBag) =>
              /\ UNCHANGED <<cost_queue_, cost_queue_with_components_, retrieved, pc>>
              /\ num_of_trajectory_pairs' = num_of_trajectory_pairs
              /\ has_more_trajectory_pairs' = has_more_trajectory_pairs
              /\ \E r \in BagToSet(ActiveQueue) : r.cost = call'.ret
        /\ (/\ call.op = "top_trajectory_pair_cost"
            /\ ActiveQueue # EmptyBag
            /\ call'.op = "next_top_trajectory_pair") =>
              /\ Len(retrieved') = Len(retrieved) + 1
              /\ retrieved'[Len(retrieved')].cost = call.ret
              /\ retrieved'[Len(retrieved')].pair = call'.ret
        /\ (/\ call.op = "top_trajectory_pair_cost"
            /\ ActiveQueue # EmptyBag
            /\ call'.op = "top_trajectory_pair_cost") =>
              call'.ret = call.ret ]_vars

C6_Witness ==
    /\ call.op = "top_trajectory_pair_cost"
    /\ retrieved # <<>>
    /\ Cardinality({r.cost : r \in BagToSet(ActiveQueue)}) >= 2
    /\ call.ret # retrieved[Len(retrieved)].cost

\* the longitudinal candidates whose pairs went through the cost model
EvaluatedLon ==
    {r.pair[1] : r \in BagToSet(cost_queue_)}
        \cup {r.pair[1] : r \in BagToSet(cost_queue_with_components_)}
        \cup {retrieved[i].pair[1] : i \in DOMAIN retrieved}

\* net displacement of a candidate over its own domain
NetDisplacement(ref) ==
    Evaluate1d(LonCurve(ref), 0, LonCurve(ref).len) - Evaluate1d(LonCurve(ref), 0, 0)

C10_DrainReturnsEachPairOnce ==
    /\ []((pc # "new" /\ InactiveQueue = EmptyBag) =>
             /\ PairBag(ActiveQueue) (+) SeqBag([i \in DOMAIN retrieved |-> retrieved[i].pair])
                    = ExpectedPairs
             /\ num_of_trajectory_pairs + Len(retrieved) = NumExpectedPairs)
    /\ [][ (pc = "ready" /\ FLAGS' = FLAGS) =>
              /\ ActiveQueue' \sqsubseteq ActiveQueue
              /\ InactiveQueue' = InactiveQueue
              /\ (call'.op = "next_top_trajectory_pair" /\ ActiveQueue # EmptyBag) =>
                     /\ num_of_trajectory_pairs' = num_of_trajectory_pairs - 1
                     /\ \E r \in BagToSet(ActiveQueue) :
                           /\ r.pair = call'.ret
                           /\ ActiveQueue' = ActiveQueue (-) SetToBag({r})
                           /\ retrieved' = Append(retrieved, [pair |-> r.pair, cost |-> r.cost])
              /\ call'.op # "next_top_trajectory_pair" =>
                     /\ ActiveQueue' = ActiveQueue
                     /\ retrieved' = retrieved ]_vars

C10_Witness ==
    /\ pc = "ready"
    /\ cost_queue_ = EmptyBag
    /\ cost_queue_with_components_ = EmptyBag
    /\ Len(retrieved) = 4
    /\ Len(retrieved) = NumExpectedPairs
    /\ \E i \in DOMAIN retrieved : \E j \in DOMAIN retrieved :
          i < j /\ retrieved[i].pair = retrieved[j].pair

-----------------------------------------------------------------------------
(* Properties of LatOffsetCost (specification SpecLatOffset)               *)

\* the sampled positions at which lat_a lies on the side opposite to its start
OppositeSamples ==
    {k \in DOMAIN s_values :
        Evaluate1d(lat_a, 0, s_values[k]) * Evaluate1d(lat_a, 0, 0) < 0}

\* lat_a crosses the reference line, lat_b has the same absolute offsets and the
\* same non-zero start offset and never crosses, and the opposite-side weight is
\* the greater one
LatCase ==
    /\ pc = "lat_out"
    /\ Evaluate1d(lat_a, 0, 0) # 0
    /\ Evaluate1d(lat_b, 0, 0) = Evaluate1d(lat_a, 0, 0)
    /\ \A k \in DOMAIN s_values :
          /\ Abs(Evaluate1d(lat_b, 0, s_values[k])) = Abs(Evaluate1d(lat_a, 0, s_values[k]))
          /\ Evaluate1d(lat_b, 0, s_values[k]) * Evaluate1d(lat_b, 0, 0) >= 0
    /\ OppositeSamples # {}
    /\ FLAGS.weight_opposite_side_offset > FLAGS.weight_same_side_offset

RECURSIVE SumOver(_, _)
SumOver(S, f) ==
    IF S = {} THEN 0
    ELSE LET k == CHOOSE x \in S : TRUE IN f[k] + SumOver(S \ {k}, f)

\* with q, u the sums of the squared and of the absolute offsets over the
\* opposite-side samples and sq, ab the same sums over all samples:
\* q (w_same ab + eps bound) > w_same sq u
CrossingRaisesCost ==
    LET off == [k \in DOMAIN s_values |-> Abs(Evaluate1d(lat_a, 0, s_values[k]))]
        sqr == [k \in DOMAIN s_values |-> off[k] * off[k]]
        q   == SumOver(OppositeSamples, sqr)
        u   == SumOver(OppositeSamples, off)
        sq  == SumOver(DOMAIN s_values, sqr)
        ab  == SumOver(DOMAIN s_values, off)
        en  == FLAGS.lattice_epsilon[1]
        ed  == FLAGS.lattice_epsilon[2]
        ws  == FLAGS.weight_same_side_offset
    IN  q * (ws * ab * ed + en * FLAGS.lat_offset_bound) > ws * sq * u * ed

\* no opposite-side sample is closer to the reference line than a same-side sample
CrossingIsFarthest ==
    \A k \in OppositeSamples : \A j \in DOMAIN s_values \ OppositeSamples :
        Abs(Evaluate1d(lat_a, 0, s_values[k])) >= Abs(Evaluate1d(lat_a, 0, s_values[j]))

\* C7 as stated: the crossing candidate's LatOffsetCost is strictly greater.
C7_CrossingAlwaysCostsMore ==
    LatCase => RLess(lat_offset_cost[2], lat_offset_cost[1])

\* C7: the crossing candidate's LatOffsetCost is strictly greater exactly when
\* the opposite-side samples raise the weighted sum of squares by more than
\* they raise the weighted sum of absolute values in proportion, which is the
\* case whenever no opposite-side sample is closer to the reference line than a
\* same-side sample; otherwise it is equal or lower.
C7_CrossingCostsMoreWhenFar ==
    LatCase =>
        /\ RLess(lat_offset_cost[2], lat_offset_cost[1]) <=> CrossingRaisesCost
        /\ CrossingIsFarthest => RLess(lat_offset_cost[2], lat_offset_cost[1])

C7_Witness ==
    /\ LatCase
    /\ ~CrossingIsFarthest
    /\ CrossingRaisesCost
    /\ RLess(lat_offset_cost[2], lat_offset_cost[1])

-----------------------------------------------------------------------------
(* Properties of ComputeLongitudinalGuideVelocity (specification SpecGuide) *)

\* magnitude of the comfortable deceleration
ComfortDecel ==
    RAbs(RMul(FLAGS.longitudinal_acceleration_lower_bound, FLAGS.comfort_acceleration_factor))

\* distance from the initial position to the stop point
StopDistance == RSub(planning_target.stop_point_s, init_s[1])

\* stop mode at cruise speed 10 with the stop point far enough ahead that the
\* deceleration needed, v^2 / (2 D), is milder than the comfortable one
GuideStopCase ==
    /\ pc = "guide_out"
    /\ planning_target.has_stop_point
    /\ planning_target.cruise_speed = I(10)
    /\ RLess(I(0), StopDistance)
    /\ RLess(RDiv(I(100), RMul(I(2), StopDistance)), ComfortDecel)

\* the time the profile starts to decelerate, D / v - v / (2 a), and the time
\* it comes to rest, D / v + v / (2 a)
CruiseEnd ==
    RSub(RDiv(StopDistance, I(10)), RDiv(I(10), RMul(I(2), ComfortDecel)))

RestTime ==
    RAdd(RDiv(StopDistance, I(10)), RDiv(I(10), RMul(I(2), ComfortDecel)))

\* C8 as stated: the sampled speeds strictly decrease to 0 by some sample of
\* the horizon and are 0 at every later sample.
C8_StrictlyDecreasesToZero ==
    GuideStopCase =>
        \E k \in DOMAIN reference_s_dot :
            /\ reference_s_dot[k] = I(0)
            /\ \A j \in DOMAIN reference_s_dot : j >= k => reference_s_dot[j] = I(0)
            /\ \A i \in DOMAIN reference_s_dot :
                  i < k => RLess(reference_s_dot[i + 1], reference_s_dot[i])

\* C8: the sampled speed is the cruise speed 10 at every sample time up to the
\* end of the cruise segment, D / v - v / (2 a), strictly decreases from one
\* sample to the next between that time and the time of rest, D / v + v / (2 a),
\* never increases, and is 0 at every sample time from the time of rest on; it
\* reaches 0 within the horizon only when the time of rest is not later than the
\* last sample time.
C8_CruiseThenDecelerate ==
    GuideStopCase =>
        /\ Len(reference_s_dot) = Len(TimeSamples)
        /\ \A k \in DOMAIN reference_s_dot :
              LET t == I(TimeSamples[k])
                  v == reference_s_dot[k]
              IN  /\ RLeq(t, CruiseEnd) => v = I(10)
                  /\ RLeq(RestTime, t) <=> v = I(0)
                  /\ k > 1 => RLeq(v, reference_s_dot[k - 1])
                  /\ (k > 1 /\ RLeq(CruiseEnd, I(TimeSamples[k - 1])) /\ RLeq(t, RestTime))
                        => RLess(v, reference_s_dot[k - 1])

C8_Witness ==
    /\ GuideStopCase
    /\ Len(reference_s_dot) >= 4
    /\ reference_s_dot[2] = I(10)
    /\ RLess(reference_s_dot[4], reference_s_dot[3])
    /\ reference_s_dot[Len(reference_s_dot)] = I(0)

====
